---- MODULE Spec2Model ----
(***************************************************************************)
(* Client/server synchronisation of the sales-pipeline CRM.                *)
(*                                                                         *)
(* One deal lives on the server (routes.ts).  Client A shows it on the     *)
(* Kanban board (KanbanBoard, src/unnamed/part_001) and in EditDealModal   *)
(* (AddStageModal.tsx, second component of the file).  Another client B    *)
(* writes the same deal through PUT /api/deals/:id.  WebSocket connections *)
(* are kept in the server registry wsClients.                              *)
(*                                                                         *)
(* React is modelled by what it does: a handler sets state, the component  *)
(* renders, the effects whose dependencies changed run with the values of  *)
(* that render, their state updates are batched, and the component renders *)
(* again until nothing changes (operator Commit).  Every action below is   *)
(* the whole handler followed by that settling.                            *)
(***************************************************************************)
EXTENDS Integers, Sequences, FiniteSets, TLC

\* ------------------------------------------------------------------ bounds
MaxWrites == 2      \* writes the server commits to the deal in one behaviour
MaxInflight == 2    \* KanbanBoard fetchDeals requests that are in flight together
MaxConns == 2       \* WebSocket connections the server has seen
MaxRegistrations == 3 \* register messages the registry holds at a time
MaxActivities == 2  \* lead activities POST /api/lead-activities adds to the store
MaxQuoteItems == 1  \* quote items POST /api/quote-items creates

\* ------------------------------------------------------------------ values
\* JavaScript's undefined and null, kept apart from every text a user can type.
Undefined == "<undefined>"
Null == "<null>"

\* The texts of the notes field: what a user types or saves.
Texts == {"", "draft text", "final text"}


\* JavaScript `x || ""` on a value that is a string, null or undefined.
OrEmpty(x) == IF x \in {Undefined, Null, ""} THEN "" ELSE x

\* The stages of the active pipeline, as the pipelineStages prop holds them.
PipelineStages ==
    << [id |-> 1, stageType |-> "normal",    order |-> 1, isHidden |-> FALSE],
       [id |-> 2, stageType |-> "completed", order |-> 2, isHidden |-> FALSE],
       [id |-> 3, stageType |-> "lost",      order |-> 3, isHidden |-> FALSE],
       [id |-> 4, stageType |-> "normal",    order |-> 4, isHidden |-> FALSE],
       [id |-> 5, stageType |-> "normal",    order |-> 5, isHidden |-> TRUE] >>

StageIds == {PipelineStages[i].id : i \in 1..Len(PipelineStages)}

\* The pipeline of the board, and a second pipeline with one stage of its own.
ActivePipeline == 1
OtherPipeline == 2
OtherStageId == 6

\* stage.pipelineId of the stage with id s.
StagePipeline(s) == IF s = OtherStageId THEN OtherPipeline ELSE ActivePipeline

\* storage.getPipelineStages(pipelineId)
StagesOfPipeline(p) ==
    IF p = ActivePipeline
    THEN PipelineStages
    ELSE << [id |-> OtherStageId, stageType |-> "normal", order |-> 1, isHidden |-> FALSE] >>

UserIds == {1, 2}
ConnIds == 1..MaxConns

VARIABLES
    \* ---- server (routes.ts)
    srvDeal,            \* the stored deal: [notes, stageId, pipelineId, saleStatus, updatedAt]
    leadActivities,     \* the lead_activities table: activity types, in insertion order
    quoteItems,         \* number of rows of the quote_items table
    httpRes,            \* response of the last request the server handled: [status, deal]
    wsClients,          \* registry Map, in insertion order: sequence of [userId, conns]
    connState,          \* connection -> "none" | "open" | "closed" (ws.readyState)
    wsSent,             \* messages the last server step sent: sequence of <<conn, type>>
    broadcastCalls,     \* types the last server step passed to broadcastUpdate, in order
    \* ---- client A, KanbanBoard
    boardData,          \* columns: sequence of [id, stageType, order, deals]
    fetchReq,           \* fetchDeals requests the server has not answered yet
    fetchResp,          \* fetchDeals responses on their way back: set of deals lists (equal ones merge)
    isEditDealModalOpen,
    selectedDeal,       \* the deal the modal gets as its `deal` prop
    \* ---- client A, EditDealModal
    notes,
    latestNotesFromDB,
    showRefreshButton,
    isEditingNotes,
    typingTimeout,      \* TRUE when the 10 s idle timer is pending
    dealDataFromApi,    \* data of useQuery ["/api/deals", id]: [has, notes, updatedAt]
    pollState,          \* the query's fetch: [st: "none"|"req"|"resp", notes, updatedAt]
    saveState,          \* updateDealMutation: "idle" | "sent" | "responded" | "refetching" | "closing"
    savePayload,        \* the PUT body, then the notes of the response
    \* ---- client A, KanbanBoard.onDragEnd
    dragReq,            \* the move in progress: [st, dest, closure, before]
    \* ---- client A, useWebSocket and the socket of NotificationCenter
    hookWs,             \* ws.current: "connecting" | "open" | "errored" | "closed"
    hookConn,           \* the server's connection behind ws.current, 0 when none
    isConnected,
    reconnectTimeout,   \* TRUE when the timer of reconnectTimeoutRef is pending
    cacheOps,           \* the queryClient calls of the last onmessage, in order
    ncWs,               \* the socket of NotificationCenter, as hookWs
    ncConn,
    \* ---- server, PUT requests handled concurrently
    putReqs,            \* request -> [pc, body, existing]
    commitLog,          \* requests in the order storage.updateDeal committed them
    eventLog            \* requests in the order of their 'deal:updated' calls

serverVars == <<srvDeal, leadActivities, quoteItems, httpRes,
                wsClients, connState, wsSent, broadcastCalls>>
boardVars == <<boardData, fetchReq, fetchResp, isEditDealModalOpen, selectedDeal>>
fieldVars == <<notes, latestNotesFromDB, showRefreshButton, isEditingNotes, typingTimeout>>
queryVars == <<dealDataFromApi, pollState>>
saveVars == <<saveState, savePayload>>
clientVars == <<boardVars, fieldVars, queryVars, saveVars>>
dragVars == <<dragReq>>
socketVars == <<hookWs, hookConn, isConnected, reconnectTimeout, cacheOps, ncWs, ncConn>>
requestVars == <<putReqs, commitLog, eventLog>>
sideVars == <<dragVars, socketVars, requestVars>>
vars == <<serverVars, boardVars, fieldVars, queryVars, saveVars, sideVars>>

\* ------------------------------------------------------------ EditDealModal
NoDeal == [notes |-> Undefined, stageId |-> 0, pipelineId |-> 0,
           saleStatus |-> Undefined, updatedAt |-> 0]
NoData == [has |-> FALSE, notes |-> Undefined, updatedAt |-> 0]
NoPoll == [st |-> "none", notes |-> Undefined, updatedAt |-> 0]

\* The four pieces of React state the notes field is made of.
Field == [notes |-> notes, latest |-> latestNotesFromDB,
          show |-> showRefreshButton, editing |-> isEditingNotes]

\* useState initial values of a freshly mounted modal.
FreshField == [notes |-> "", latest |-> "", show |-> FALSE, editing |-> FALSE]

\* `dealDataFromApi?.notes`
ApiNotes(api) == IF api.has THEN api.notes ELSE Undefined

\* dealDataFromApi?.notes !== undefined ? dealDataFromApi.notes : deal.notes || ""
LatestNotesFromDatabase(dealNotes, apiNotes) ==
    IF apiNotes /= Undefined THEN apiNotes ELSE OrEmpty(dealNotes)

\* The deal-load effect, deps [isOpen, deal]: setNotes(deal.notes || "").
DealLoadEffect(m, dealNotes) == [m EXCEPT !.notes = OrEmpty(dealNotes)]

\* The editing branch of the notes sync effect.
\* An effect that keeps the server value out of the comparison while the guard
\* is on would never raise the flag.
HasDifferencesNeverSet(localNotes, latest) == FALSE

HasDifferences(localNotes, latest) == localNotes /= latest /\ latest /= ""

\* The idle branch of the notes sync effect with the overwrite left out.
IdleSyncKeepsLocal(m, latest) == [m EXCEPT !.latest = OrEmpty(latest), !.show = FALSE]

IdleSync(m, latest) ==
    [m EXCEPT !.latest = OrEmpty(latest), !.notes = OrEmpty(latest), !.show = FALSE]

\* The notes sync effect, deps [isOpen, deal.id, deal.notes, dealDataFromApi.notes,
\* isEditingNotes, notes].  r is the state of the render the effect closes over,
\* m the state the batched updates of this commit have produced so far.
NotesSyncEffect(r, m, dealNotes, apiNotes) ==
    LET latest == LatestNotesFromDatabase(dealNotes, apiNotes) IN
    IF ~r.editing
    THEN IdleSync(m, latest)
    ELSE [m EXCEPT !.latest = OrEmpty(latest),
                   !.show = HasDifferences(r.notes, latest)]

\* One commit and the renders that follow it: r is the rendered state, e1 and e2
\* tell whether the deps of the deal-load effect and of the notes sync effect
\* changed since the render before.
RECURSIVE Commit(_, _, _, _, _)
Commit(r, e1, e2, dealNotes, apiNotes) ==
    LET m1 == IF e1 THEN DealLoadEffect(r, dealNotes) ELSE r
        m2 == IF e2 THEN NotesSyncEffect(r, m1, dealNotes, apiNotes) ELSE m1
    IN  IF m2 = r THEN r
        ELSE Commit(m2, FALSE, m2.notes /= r.notes \/ m2.editing /= r.editing,
                    dealNotes, apiNotes)

SetField(m) ==
    /\ notes' = m.notes
    /\ latestNotesFromDB' = m.latest
    /\ showRefreshButton' = m.show
    /\ isEditingNotes' = m.editing

\* A handleNotesChange that starts a timer only when none is pending, and so
\* leaves the timer of an earlier mount of the field as it finds it.
HandleNotesChangeKeepsTimer(t) ==
    /\ isEditDealModalOpen
    /\ t /= notes
    /\ SetField(Commit([Field EXCEPT !.notes = t, !.editing = TRUE], FALSE, TRUE,
                       selectedDeal.notes, ApiNotes(dealDataFromApi)))
    /\ typingTimeout' = typingTimeout
    /\ UNCHANGED <<serverVars, boardVars, queryVars, saveVars>>
    /\ UNCHANGED sideVars

\* handleNotesChange: a keystroke that leaves the text t in the field.
HandleNotesChange(t) ==
    /\ isEditDealModalOpen
    /\ t /= notes
    /\ SetField(Commit([Field EXCEPT !.notes = t, !.editing = TRUE], FALSE, TRUE,
                       selectedDeal.notes, ApiNotes(dealDataFromApi)))
    /\ typingTimeout' = TRUE
    /\ UNCHANGED <<serverVars, boardVars, queryVars, saveVars>>
    /\ UNCHANGED sideVars

\* The 10 s idle timer fires: setIsEditingNotes(false).
TypingTimeoutFires ==
    /\ isEditDealModalOpen
    /\ typingTimeout
    /\ SetField(Commit([Field EXCEPT !.editing = FALSE], FALSE, isEditingNotes,
                       selectedDeal.notes, ApiNotes(dealDataFromApi)))
    /\ typingTimeout' = FALSE
    /\ UNCHANGED <<serverVars, boardVars, queryVars, saveVars>>
    /\ UNCHANGED sideVars

\* handleRefreshNotes without its setIsEditingNotes(false).
HandleRefreshNotesKeepsGuard ==
    /\ isEditDealModalOpen
    /\ showRefreshButton
    /\ LET r == [Field EXCEPT !.notes = latestNotesFromDB, !.show = FALSE]
       IN SetField(Commit(r, FALSE, r.notes /= notes,
                          selectedDeal.notes, ApiNotes(dealDataFromApi)))
    /\ UNCHANGED <<typingTimeout, serverVars, boardVars, queryVars, saveVars>>
    /\ UNCHANGED sideVars

\* handleRefreshNotes; the button is rendered only while showRefreshButton.
HandleRefreshNotes ==
    /\ isEditDealModalOpen
    /\ showRefreshButton
    /\ LET r == [Field EXCEPT !.notes = latestNotesFromDB, !.show = FALSE,
                              !.editing = FALSE]
       IN SetField(Commit(r, FALSE, r.notes /= notes \/ r.editing /= isEditingNotes,
                          selectedDeal.notes, ApiNotes(dealDataFromApi)))
    /\ UNCHANGED <<typingTimeout, serverVars, boardVars, queryVars, saveVars>>
    /\ UNCHANGED sideVars

\* --------------------------------------------------- server, routes.ts
\* array.splice(i, 1), what is left of the array.
Splice(conns, i) == SubSeq(conns, 1, i - 1) \o SubSeq(conns, i + 1, Len(conns))

\* What the server answers: the status and, for a deal update, the deal.
\* NoRes stands for a step that answers no request.
NoRes == [status |-> 0, deal |-> NoDeal]
Res(status, deal) == [status |-> status, deal |-> deal]

\* req.user as authMiddleware leaves it: no valid token, a user, an admin.
Roles == {"none", "user", "admin"}

\* logActivity: storage.createLeadActivity appends the record; when it throws
\* (ok is FALSE) the catch writes to the console and the caller goes on.
LogActivity(store, type, ok) == IF ok THEN Append(store, type) ELSE store

\* Whether the first and the second createLeadActivity of a request succeed.
Oks == [1..2 -> BOOLEAN]

\* The logActivity calls of one request from the i-th on, in order.
RECURSIVE LogActivities(_, _, _, _)
LogActivities(store, types, oks, i) ==
    IF i > Len(types) THEN store
    ELSE LogActivities(LogActivity(store, types[i], oks[i]), types, oks, i + 1)

\* A request body of PUT /api/deals/:id: absent fields are Undefined (0 for
\* stageId); pipeline tells whether the body carries a pipelineId.
Body(n, s, st, p) == [notes |-> n, stageId |-> s, saleStatus |-> st, pipeline |-> p]

\* stages.find(stage => stage.stageType === t)?.id, 0 when there is none.
StageOfType(stages, t) ==
    LET S == {i \in 1..Len(stages) : stages[i].stageType = t}
    IN IF S = {} THEN 0 ELSE stages[CHOOSE i \in S : \A j \in S : i <= j].id

\* The form path of PUT /api/deals/:id up to storage.updateDeal: the stage is
\* set from saleStatus only when the body carries a saleStatus and no stageId,
\* to the completed or lost stage of the pipeline the deal is in.
ValidatedStage(deal, body) ==
    LET stages == StagesOfPipeline(deal.pipelineId) IN
    IF body.saleStatus /= Undefined /\ body.stageId = 0
    THEN IF body.saleStatus = "won" /\ StageOfType(stages, "completed") /= 0
         THEN StageOfType(stages, "completed")
         ELSE IF body.saleStatus = "lost" /\ StageOfType(stages, "lost") /= 0
              THEN StageOfType(stages, "lost")
              ELSE 0
    ELSE body.stageId

\* storage.updateDeal(targetId, validatedData): the fields present are written.
\* A body that carries a pipelineId carries the pipeline of the client's board.
UpdateDeal(deal, body) ==
    [notes |-> IF body.notes /= Undefined THEN body.notes ELSE deal.notes,
     stageId |-> IF ValidatedStage(deal, body) /= 0
                 THEN ValidatedStage(deal, body) ELSE deal.stageId,
     pipelineId |-> IF body.pipeline THEN ActivePipeline ELSE deal.pipelineId,
     saleStatus |-> IF body.saleStatus /= Undefined THEN body.saleStatus ELSE deal.saleStatus,
     updatedAt |-> deal.updatedAt + 1]

\* Connections on the lists of the registry, in Map order, with repetitions.
RECURSIVE RegisteredConns(_)
RegisteredConns(reg) ==
    IF reg = <<>> THEN <<>> ELSE Head(reg).conns \o RegisteredConns(Tail(reg))

\* A forEach that sends whatever the readyState of the connection.
RECURSIVE SendToAnyState(_, _)
SendToAnyState(conns, type) ==
    IF conns = <<>> THEN <<>>
    ELSE << <<Head(conns), type>> >> \o SendToAnyState(Tail(conns), type)

\* clients.forEach(ws => { if (ws.readyState === WebSocket.OPEN) ws.send(...) })
RECURSIVE SendTo(_, _)
SendTo(conns, type) ==
    IF conns = <<>> THEN <<>>
    ELSE (IF connState[Head(conns)] = "open" THEN << <<Head(conns), type>> >> ELSE <<>>)
         \o SendTo(Tail(conns), type)

\* broadcastUpdate(type, data): the messages it sends.
BroadcastUpdate(type) ==
    IF type \in {"deals_updated", "stages_updated"}
    THEN SendTo(RegisteredConns(wsClients), type)
    ELSE <<>>

RECURSIVE BroadcastAll(_)
BroadcastAll(types) ==
    IF types = <<>> THEN <<>>
    ELSE BroadcastUpdate(Head(types)) \o BroadcastAll(Tail(types))

\* The broadcastUpdate calls of the form path, in order.
FormPathEvents(body) ==
    <<"deal:updated">>
    \o (IF body.notes /= Undefined THEN <<"notes:updated">> ELSE <<>>)
    \o (IF body.pipeline THEN <<"pipeline:changed">> ELSE <<>>)

\* stageChanged of the form path: validatedData.stageId is set and differs
\* from the stage of the deal as read at the start of the request.
StageChanged(deal, body) ==
    ValidatedStage(deal, body) /= 0 /\ ValidatedStage(deal, body) /= deal.stageId

\* The logActivity calls of the form path, in order: sale_won / sale_lost when
\* the stage is derived from the saleStatus, then stage_moved when the stage
\* changed.
FormPathActivities(deal, body) ==
    LET stages == StagesOfPipeline(deal.pipelineId) IN
    (IF body.saleStatus /= Undefined /\ body.stageId = 0
     THEN IF body.saleStatus = "won" /\ StageOfType(stages, "completed") /= 0
          THEN <<"sale_won">>
          ELSE IF body.saleStatus = "lost" /\ StageOfType(stages, "lost") /= 0
               THEN <<"sale_lost">>
               ELSE <<>>
     ELSE <<>>)
    \o (IF StageChanged(deal, body) THEN <<"stage_moved">> ELSE <<>>)

\* A form path on which a failed createLeadActivity reaches the handler's
\* catch: nothing is written and the request is answered with 500.
PutFormLoggingFatal(body) ==
    /\ srvDeal /= NoDeal
    /\ srvDeal.updatedAt < MaxWrites
    /\ \E oks \in Oks :
          LET types == FormPathActivities(srvDeal, body)
              failed == \E i \in 1..Len(types) : ~oks[i]
          IN /\ leadActivities' = LogActivities(leadActivities, types, oks, 1)
             /\ srvDeal' = IF failed THEN srvDeal ELSE UpdateDeal(srvDeal, body)
             /\ httpRes' = IF failed THEN Res(500, NoDeal) ELSE Res(200, srvDeal')
             /\ broadcastCalls' = IF failed THEN <<>> ELSE FormPathEvents(body)
             /\ wsSent' = IF failed THEN <<>> ELSE BroadcastAll(FormPathEvents(body))
    /\ UNCHANGED <<quoteItems, wsClients, connState>>

\* PUT /api/deals/:id, form path, for a deal that exists: answered with the
\* updated deal.
PutForm(body) ==
    /\ srvDeal /= NoDeal
    /\ srvDeal.updatedAt < MaxWrites
    /\ \E oks \in Oks :
          leadActivities' =
              LogActivities(leadActivities, FormPathActivities(srvDeal, body), oks, 1)
    /\ srvDeal' = UpdateDeal(srvDeal, body)
    /\ httpRes' = Res(200, srvDeal')
    /\ broadcastCalls' = FormPathEvents(body)
    /\ wsSent' = BroadcastAll(FormPathEvents(body))
    /\ UNCHANGED <<quoteItems, wsClients, connState>>

\* Client B saves the notes of the deal in its own EditDealModal.
OtherClientSavesNotes(n) ==
    /\ PutForm(Body(n, srvDeal.stageId, Undefined, TRUE))
    /\ UNCHANGED <<boardVars, fieldVars, queryVars, saveVars>>
    /\ UNCHANGED sideVars

\* Client B drags the deal to another normal stage (KanbanBoard.onDragEnd).
OtherClientMovesDeal(s) ==
    /\ s /= srvDeal.stageId
    /\ \E i \in 1..Len(PipelineStages) :
          /\ PipelineStages[i].id = s
          /\ PipelineStages[i].stageType = "normal"
          /\ ~PipelineStages[i].isHidden
    /\ PutForm(Body(Undefined, s, "negotiation", TRUE))
    /\ UNCHANGED <<boardVars, fieldVars, queryVars, saveVars>>
    /\ UNCHANGED sideVars

\* Client B records the outcome of the deal.
OtherClientSetsOutcome(st) ==
    /\ st /= srvDeal.saleStatus
    /\ PutForm(Body(Undefined, 0, st, FALSE))
    /\ UNCHANGED <<boardVars, fieldVars, queryVars, saveVars>>
    /\ UNCHANGED sideVars

\* The bodies an authenticated client sends to the form path.
FormBodies ==
    {Body(n, s, st, p) : n \in {Undefined, "final text"}, s \in {0, 4},
                         st \in {Undefined, "won", "lost"}, p \in BOOLEAN}

\* PUT /api/deals/:id without dealId in the body, from any client.
PutDealForm(body) ==
    /\ PutForm(body)
    /\ UNCHANGED clientVars
    /\ UNCHANGED sideVars

\* The form path when storage.updateDeal throws: the sale_won / sale_lost call
\* was made before it, the catch of the handler answers 500.
PutDealFormFails(body) ==
    /\ srvDeal /= NoDeal
    /\ Len(leadActivities) < MaxActivities
    /\ \E oks \in Oks :
          leadActivities' =
              LogActivities(leadActivities,
                            SelectSeq(FormPathActivities(srvDeal, body),
                                      LAMBDA t : t \in {"sale_won", "sale_lost"}),
                            oks, 1)
    /\ httpRes' = Res(500, NoDeal)
    /\ broadcastCalls' = <<>>
    /\ wsSent' = <<>>
    /\ UNCHANGED <<srvDeal, quoteItems, wsClients, connState>>
    /\ UNCHANGED clientVars
    /\ UNCHANGED sideVars

\* PUT /api/deals/:id for a deal storage.getDeal does not find: 404.
PutDealMissing ==
    /\ srvDeal = NoDeal
    /\ httpRes' = Res(404, NoDeal)
    /\ broadcastCalls' = <<>>
    /\ wsSent' = <<>>
    /\ UNCHANGED <<srvDeal, leadActivities, quoteItems, wsClients, connState>>
    /\ UNCHANGED clientVars
    /\ UNCHANGED sideVars

\* The drag-and-drop path of PUT /api/deals/:id (dealId in the body): stageId
\* is the stage the body carries, 0 for a body that carries an order only.
DragStageChanged(deal, stageId) == stageId /= 0 /\ deal.stageId /= stageId

\* newStage && newStage.pipelineId !== existingDeal.pipelineId
DragPipelineChanged(deal, stageId) ==
    stageId /= 0 /\ StagePipeline(stageId) /= deal.pipelineId

\* The logActivity calls of the drag-and-drop path, in order.
DragPathActivities(deal, stageId) ==
    (IF DragStageChanged(deal, stageId) THEN <<"stage_change">> ELSE <<>>)
    \o (IF DragPipelineChanged(deal, stageId) THEN <<"pipeline_change">> ELSE <<>>)

\* The broadcastUpdate calls of the drag-and-drop path, in order.
DragPathEvents(deal, stageId) ==
    (IF DragStageChanged(deal, stageId) THEN <<"activities:updated">> ELSE <<>>)
    \o <<"deal:updated">>

\* storage.updateDeal(targetId, updateData) of the drag-and-drop path.
UpdateDealDrag(deal, stageId) ==
    [deal EXCEPT !.stageId = IF stageId /= 0 THEN stageId ELSE @,
                 !.pipelineId = IF DragPipelineChanged(deal, stageId)
                                THEN StagePipeline(stageId) ELSE @,
                 !.updatedAt = @ + 1]

\* The stageId of the bodies sent to the drag-and-drop path.
DragStages == {0, 4, OtherStageId}

PutDragDrop(stageId) ==
    /\ srvDeal /= NoDeal
    /\ srvDeal.updatedAt < MaxWrites
    /\ \E oks \in Oks :
          leadActivities' =
              LogActivities(leadActivities, DragPathActivities(srvDeal, stageId), oks, 1)
    /\ srvDeal' = UpdateDealDrag(srvDeal, stageId)
    /\ httpRes' = Res(200, srvDeal')
    /\ broadcastCalls' = DragPathEvents(srvDeal, stageId)
    /\ wsSent' = BroadcastAll(DragPathEvents(srvDeal, stageId))
    /\ UNCHANGED <<quoteItems, wsClients, connState>>
    /\ UNCHANGED clientVars
    /\ UNCHANGED sideVars

\* The drag-and-drop path when storage.updateDeal throws: the logActivity
\* calls and the 'activities:updated' call were made before it, the catch of
\* the handler answers 500.
PutDragDropFails(stageId) ==
    /\ srvDeal /= NoDeal
    /\ Len(leadActivities) < MaxActivities
    /\ \E oks \in Oks :
          leadActivities' =
              LogActivities(leadActivities, DragPathActivities(srvDeal, stageId), oks, 1)
    /\ httpRes' = Res(500, NoDeal)
    /\ broadcastCalls' = SelectSeq(DragPathEvents(srvDeal, stageId),
                                   LAMBDA e : e = "activities:updated")
    /\ wsSent' = BroadcastAll(broadcastCalls')
    /\ UNCHANGED <<srvDeal, quoteItems, wsClients, connState>>
    /\ UNCHANGED clientVars
    /\ UNCHANGED sideVars

\* DELETE /api/deals/:id behind authMiddleware and adminOnly: 401 without a
\* token, 403 for a user who is no admin, 404 when the deal is gone, else the
\* deal is deleted and 204 is answered.  No broadcastUpdate call.
DeleteDeal(role) ==
    /\ srvDeal' = IF role = "admin" THEN NoDeal ELSE srvDeal
    /\ httpRes' = Res(IF role = "none" THEN 401
                      ELSE IF role = "user" THEN 403
                      ELSE IF srvDeal = NoDeal THEN 404 ELSE 204, NoDeal)
    /\ broadcastCalls' = <<>>
    /\ wsSent' = <<>>
    /\ UNCHANGED <<leadActivities, quoteItems, wsClients, connState>>
    /\ UNCHANGED clientVars
    /\ UNCHANGED sideVars

\* POST /api/deals/sync-stages: a won deal that is not on the completed stage
\* of its pipeline, or a lost deal that is not on the lost stage, is moved
\* there by storage.updateDeal.  No logActivity, no broadcastUpdate call.
SyncStageOf(deal) ==
    LET stages == StagesOfPipeline(deal.pipelineId)
        correct == IF deal.saleStatus = "won" THEN StageOfType(stages, "completed")
                   ELSE IF deal.saleStatus = "lost" THEN StageOfType(stages, "lost")
                   ELSE 0
    IN IF correct /= 0 /\ deal.stageId /= correct THEN correct ELSE 0

SyncStages ==
    /\ srvDeal /= NoDeal
    /\ SyncStageOf(srvDeal) /= 0 => srvDeal.updatedAt < MaxWrites
    /\ srvDeal' = IF SyncStageOf(srvDeal) /= 0
                  THEN [srvDeal EXCEPT !.stageId = SyncStageOf(srvDeal),
                                       !.updatedAt = @ + 1]
                  ELSE srvDeal
    /\ httpRes' = Res(200, NoDeal)
    /\ broadcastCalls' = <<>>
    /\ wsSent' = <<>>
    /\ UNCHANGED <<leadActivities, quoteItems, wsClients, connState>>
    /\ UNCHANGED clientVars
    /\ UNCHANGED sideVars

\* PUT /api/deals/order.  The router reaches PUT /deals/:id first, registered
\* before it: behind authMiddleware, parseInt("order") is NaN, the body has no
\* dealId, and the request is answered with 400.  Nothing is written.
PutDealsOrder(role) ==
    /\ httpRes' = Res(IF role = "none" THEN 401 ELSE 400, NoDeal)
    /\ broadcastCalls' = <<>>
    /\ wsSent' = <<>>
    /\ UNCHANGED <<srvDeal, leadActivities, quoteItems, wsClients, connState>>
    /\ UNCHANGED clientVars
    /\ UNCHANGED sideVars

\* POST /api/lead-activities: a note a user adds to the deal.
PostLeadActivity ==
    /\ Len(leadActivities) < MaxActivities
    /\ leadActivities' = Append(leadActivities, "note")
    /\ httpRes' = Res(201, NoDeal)
    /\ broadcastCalls' = <<>>
    /\ wsSent' = <<>>
    /\ UNCHANGED <<srvDeal, quoteItems, wsClients, connState>>
    /\ UNCHANGED clientVars
    /\ UNCHANGED sideVars

\* DELETE /api/lead-activities/:id, registered with no middleware: the i-th
\* record is deleted whoever asks, 404 when there is no such record.
DeleteLeadActivity(role, i) ==
    /\ leadActivities' = IF i <= Len(leadActivities)
                         THEN Splice(leadActivities, i) ELSE leadActivities
    /\ httpRes' = Res(IF i <= Len(leadActivities) THEN 204 ELSE 404, NoDeal)
    /\ broadcastCalls' = <<>>
    /\ wsSent' = <<>>
    /\ UNCHANGED <<srvDeal, quoteItems, wsClients, connState>>
    /\ UNCHANGED clientVars
    /\ UNCHANGED sideVars

\* The events POST /api/quote-items passes to broadcastUpdate.
QuoteItemEvents == <<"quote:updated", "activities:updated">>

\* POST /api/quote-items: storage.createQuoteItem, logActivity, two
\* broadcastUpdate calls, 201 with the item.
PostQuoteItem ==
    /\ quoteItems < MaxQuoteItems
    /\ quoteItems' = quoteItems + 1
    /\ \E ok \in BOOLEAN :
          leadActivities' = LogActivity(leadActivities, "quote_item_added", ok)
    /\ httpRes' = Res(201, NoDeal)
    /\ broadcastCalls' = QuoteItemEvents
    /\ wsSent' = BroadcastAll(QuoteItemEvents)
    /\ UNCHANGED <<srvDeal, wsClients, connState>>
    /\ UNCHANGED clientVars
    /\ UNCHANGED sideVars

\* POST /api/deals: a deal of another pipeline is created.  notifyPipelineActivity
\* notifies every user through createNotification, then the creation is broadcast.
RECURSIVE NotifyAll(_)
NotifyAll(reg) ==
    IF reg = <<>> THEN <<>>
    ELSE SendTo(Head(reg).conns, "notification") \o NotifyAll(Tail(reg))

PostDeal ==
    /\ broadcastCalls' = <<"deal:created">>
    /\ wsSent' = NotifyAll(wsClients) \o BroadcastUpdate("deal:created")
    /\ httpRes' = Res(201, NoDeal)
    /\ UNCHANGED <<srvDeal, leadActivities, quoteItems, wsClients, connState>>
    /\ UNCHANGED <<boardVars, fieldVars, queryVars, saveVars>>
    /\ UNCHANGED sideVars

\* wss.on('connection'): a client's WebSocket opens.
WsConnect(c) ==
    /\ connState[c] = "none"
    /\ connState' = [connState EXCEPT ![c] = "open"]
    /\ wsSent' = <<>>
    /\ broadcastCalls' = <<>>
    /\ httpRes' = NoRes
    /\ UNCHANGED <<srvDeal, leadActivities, quoteItems, wsClients>>
    /\ UNCHANGED <<boardVars, fieldVars, queryVars, saveVars>>
    /\ UNCHANGED sideVars

UserIndex(reg, u) ==
    LET S == {i \in 1..Len(reg) : reg[i].userId = u}
    IN IF S = {} THEN 0 ELSE CHOOSE i \in S : TRUE

\* ws.on('message') with {type: 'register', userId}.
RegisterConn(reg, c, u) ==
    IF UserIndex(reg, u) = 0
    THEN Append(reg, [userId |-> u, conns |-> <<c>>])
    ELSE [reg EXCEPT ![UserIndex(reg, u)].conns = Append(@, c)]

WsRegister(c, u) ==
    /\ connState[c] = "open"
    /\ c \notin {hookConn, ncConn}
    /\ Len(RegisteredConns(wsClients)) < MaxRegistrations
    /\ wsClients' = RegisterConn(wsClients, c, u)
    /\ wsSent' = <<>>
    /\ broadcastCalls' = <<>>
    /\ httpRes' = NoRes
    /\ UNCHANGED <<srvDeal, leadActivities, quoteItems, connState>>
    /\ UNCHANGED <<boardVars, fieldVars, queryVars, saveVars>>
    /\ UNCHANGED sideVars

\* clients.indexOf(ws), 0 when absent.
IndexOf(conns, c) ==
    LET S == {i \in 1..Len(conns) : conns[i] = c}
    IN IF S = {} THEN 0 ELSE CHOOSE i \in S : \A j \in S : i <= j

\* ws.on('close'): the first occurrence of ws is removed from every list, and a
\* list that gets empty is deleted from the Map.
RECURSIVE RemoveConn(_, _)
RemoveConn(reg, c) ==
    IF reg = <<>> THEN <<>>
    ELSE LET e == Head(reg)
             i == IndexOf(e.conns, c)
             left == IF i = 0 THEN e.conns ELSE Splice(e.conns, i)
         IN (IF left = <<>> THEN <<>> ELSE << [e EXCEPT !.conns = left] >>)
            \o RemoveConn(Tail(reg), c)

WsClose(c) ==
    /\ connState[c] = "open"
    /\ connState' = [connState EXCEPT ![c] = "closed"]
    /\ wsClients' = RemoveConn(wsClients, c)
    /\ wsSent' = <<>>
    /\ broadcastCalls' = <<>>
    /\ httpRes' = NoRes
    /\ UNCHANGED <<srvDeal, leadActivities, quoteItems>>
    /\ UNCHANGED <<boardVars, fieldVars, queryVars, saveVars>>
    /\ UNCHANGED sideVars

\* ------------------- client A: useWebSocket and the socket of NotificationCenter
\* The server side of a handshake that completes on connection c.
Accept(c) ==
    /\ connState[c] = "none"
    /\ connState' = [connState EXCEPT ![c] = "open"]
    /\ wsSent' = <<>>
    /\ broadcastCalls' = <<>>
    /\ httpRes' = NoRes
    /\ UNCHANGED <<srvDeal, leadActivities, quoteItems, wsClients>>

\* ws.onopen of useWebSocket: setIsConnected(true) and clearTimeout.  Nothing
\* is sent on the socket.
HookOnOpen(c) ==
    /\ hookWs = "connecting"
    /\ Accept(c)
    /\ hookWs' = "open"
    /\ hookConn' = c
    /\ isConnected' = TRUE
    /\ reconnectTimeout' = FALSE
    /\ UNCHANGED <<cacheOps, ncWs, ncConn, clientVars, dragVars, requestVars>>

\* event.data of a message: text that is no JSON (json FALSE), or an object
\* {type, data} whose data is absent ("none"), an object without ids
\* ("empty") or an object with dealId / leadId ("ids").
MsgTypes == {"deal:updated", "deal:created", "deal:deleted", "lead:updated",
             "notification", "deals_updated", Undefined}

Messages ==
    {[json |-> FALSE, type |-> Undefined, data |-> "none"]}
    \cup [json : {TRUE}, type : MsgTypes, data : {"none", "empty", "ids"}]

\* The queryClient calls ws.onmessage makes before it returns or before the
\* TypeError of message.data.dealId on a missing data reaches its catch.
MessageOps(msg) ==
    IF ~msg.json THEN <<>>
    ELSE IF msg.type = "deal:updated"
    THEN <<"removeQueries /api/deals", "invalidateQueries /api/deals">>
         \o (IF msg.data = "ids" THEN <<"invalidateQueries /api/deals/:id">> ELSE <<>>)
    ELSE IF msg.type \in {"deal:created", "deal:deleted"}
    THEN <<"invalidateQueries /api/deals">>
    ELSE IF msg.type = "lead:updated"
    THEN <<"invalidateQueries /api/leads">>
         \o (IF msg.data = "none" THEN <<>> ELSE <<"invalidateQueries /api/leads/:id">>)
    ELSE <<>>

\* ws.onmessage of useWebSocket.  No component under src/ mounts the hook;
\* the calls go to the QueryClient of whatever mounts it.
HookOnMessage(msg) ==
    /\ hookWs = "open"
    /\ cacheOps' = MessageOps(msg)
    /\ UNCHANGED <<hookWs, hookConn, isConnected, reconnectTimeout, ncWs, ncConn>>
    /\ UNCHANGED <<serverVars, clientVars, dragVars, requestVars>>

\* ws.onerror of useWebSocket, for an attempt that fails: setIsConnected(false).
\* The browser fires close after it.
HookOnError ==
    /\ hookWs = "connecting"
    /\ hookWs' = "errored"
    /\ isConnected' = FALSE
    /\ UNCHANGED <<hookConn, reconnectTimeout, cacheOps, ncWs, ncConn>>
    /\ UNCHANGED <<serverVars, clientVars, dragVars, requestVars>>

\* ws.onclose of useWebSocket, after a failed attempt, when the connection is
\* gone, or for the socket disconnect() has closed (the handler stays on the
\* socket): setIsConnected(false) and the 3 s timer.
HookOnClose ==
    /\ \/ hookWs = "errored"
       \/ hookWs = "open" /\ connState[hookConn] = "closed"
       \/ hookWs = "disconnecting"
    /\ hookWs' = "closed"
    /\ hookConn' = 0
    /\ isConnected' = FALSE
    /\ reconnectTimeout' = TRUE
    /\ UNCHANGED <<cacheOps, ncWs, ncConn>>
    /\ UNCHANGED <<serverVars, clientVars, dragVars, requestVars>>

\* disconnect(), called by the component or by the cleanup of the mount
\* effect: clearTimeout, ws.current.close(), ws.current = null,
\* setIsConnected(false).  The close event of a socket that was not closed yet
\* is delivered later; a socket whose close event was delivered fires none.
HookDisconnect ==
    /\ hookWs \in {"connecting", "open", "errored", "closed"}
    /\ reconnectTimeout' = FALSE
    /\ hookWs' = IF hookWs = "closed" THEN "disconnected" ELSE "disconnecting"
    /\ isConnected' = FALSE
    /\ UNCHANGED <<hookConn, cacheOps, ncWs, ncConn>>
    /\ UNCHANGED <<serverVars, clientVars, dragVars, requestVars>>

\* The timer fires and calls connect(): ws.current is not OPEN, so
\* new WebSocket(wsUrl) runs; when it throws, the catch sets isConnected to
\* false and sets no timer.
HookReconnectFires(throws) ==
    /\ reconnectTimeout
    /\ reconnectTimeout' = FALSE
    /\ hookWs' = IF throws THEN hookWs ELSE "connecting"
    /\ isConnected' = FALSE
    /\ UNCHANGED <<hookConn, cacheOps, ncWs, ncConn>>
    /\ UNCHANGED <<serverVars, clientVars, dragVars, requestVars>>

\* ws.onopen of NotificationCenter: a console.log.
NcOnOpen(c) ==
    /\ ncWs = "connecting"
    /\ Accept(c)
    /\ ncWs' = "open"
    /\ ncConn' = c
    /\ UNCHANGED <<hookWs, hookConn, isConnected, reconnectTimeout, cacheOps>>
    /\ UNCHANGED <<clientVars, dragVars, requestVars>>

\* ws.onerror of NotificationCenter: a console.error.
NcOnError ==
    /\ ncWs = "connecting"
    /\ ncWs' = "errored"
    /\ UNCHANGED <<ncConn, hookWs, hookConn, isConnected, reconnectTimeout, cacheOps>>
    /\ UNCHANGED <<serverVars, clientVars, dragVars, requestVars>>

\* ws.onclose of NotificationCenter: a console.log.
NcOnClose ==
    /\ \/ ncWs = "errored"
       \/ ncWs = "open" /\ connState[ncConn] = "closed"
    /\ ncWs' = "closed"
    /\ ncConn' = 0
    /\ UNCHANGED <<hookWs, hookConn, isConnected, reconnectTimeout, cacheOps>>
    /\ UNCHANGED <<serverVars, clientVars, dragVars, requestVars>>

SocketNext ==
    \/ \E c \in ConnIds : HookOnOpen(c)
    \/ \E msg \in Messages : HookOnMessage(msg)
    \/ HookOnError
    \/ HookOnClose
    \/ HookDisconnect
    \/ \E throws \in BOOLEAN : HookReconnectFires(throws)
    \/ \E c \in ConnIds : NcOnOpen(c)
    \/ NcOnError
    \/ NcOnClose

\* ------------------------------ server, PUT /api/deals/:id handled concurrently
ReqIds == {1, 2}

\* One request of the form path: pc is the await it stands at, existing the
\* deal storage.getDeal returned, updated the deal storage.updateDeal returned.
NoReq == [pc |-> "none", body |-> Body(Undefined, 0, Undefined, FALSE),
          existing |-> NoDeal, updated |-> NoDeal]

\* The bodies of the concurrent requests: notes, a stage, an outcome.
ReqBodies == {Body("final text", 0, Undefined, FALSE),
              Body(Undefined, 4, Undefined, FALSE),
              Body(Undefined, 0, "won", FALSE)}

\* The sale_won / sale_lost call of a request, made before storage.updateDeal.
SaleActivities(req) ==
    SelectSeq(FormPathActivities(req.existing, req.body),
              LAMBDA t : t \in {"sale_won", "sale_lost"})

\* storage.updateDeal(targetId, validatedData) on the deal as stored now, with
\* the stage that was derived from the deal read at the start.
CommitDeal(stored, req) ==
    [UpdateDeal(stored, req.body) EXCEPT
        !.stageId = IF ValidatedStage(req.existing, req.body) /= 0
                    THEN ValidatedStage(req.existing, req.body) ELSE stored.stageId]

\* The request arrives: `await storage.getDeal(targetId)`.
ReqRead(r, body) ==
    /\ putReqs[r].pc = "none"
    /\ srvDeal /= NoDeal
    /\ putReqs' = [putReqs EXCEPT ![r] = [pc |-> "read", body |-> body,
                                          existing |-> srvDeal, updated |-> NoDeal]]
    /\ UNCHANGED <<commitLog, eventLog, serverVars, clientVars, dragVars, socketVars>>

\* `await logActivity(targetId, 'sale_won' | 'sale_lost', ...)`.
ReqLogSale(r) ==
    /\ putReqs[r].pc = "read"
    /\ SaleActivities(putReqs[r]) /= <<>>
    /\ \E oks \in Oks :
          leadActivities' = LogActivities(leadActivities, SaleActivities(putReqs[r]), oks, 1)
    /\ putReqs' = [putReqs EXCEPT ![r].pc = "validated"]
    /\ wsSent' = <<>>
    /\ broadcastCalls' = <<>>
    /\ httpRes' = NoRes
    /\ UNCHANGED <<srvDeal, quoteItems, wsClients, connState>>
    /\ UNCHANGED <<commitLog, eventLog, clientVars, dragVars, socketVars>>

\* The rest of the handler from `await storage.updateDeal`: when the stage did
\* not change it runs to res.json without another await.
ReqCommit(r) ==
    LET req == putReqs[r]
        done == ~StageChanged(req.existing, req.body)
    IN /\ \/ req.pc = "validated"
          \/ req.pc = "read" /\ SaleActivities(req) = <<>>
       /\ srvDeal /= NoDeal
       /\ srvDeal.updatedAt < MaxWrites
       /\ srvDeal' = CommitDeal(srvDeal, req)
       /\ commitLog' = Append(commitLog, r)
       /\ putReqs' = [putReqs EXCEPT ![r].pc = IF done THEN "done" ELSE "committed",
                                     ![r].updated = srvDeal']
       /\ eventLog' = IF done THEN Append(eventLog, r) ELSE eventLog
       /\ broadcastCalls' = IF done THEN FormPathEvents(req.body) ELSE <<>>
       /\ wsSent' = IF done THEN BroadcastAll(FormPathEvents(req.body)) ELSE <<>>
       /\ httpRes' = IF done THEN Res(200, srvDeal') ELSE NoRes
       /\ UNCHANGED <<leadActivities, quoteItems, wsClients, connState>>
       /\ UNCHANGED <<clientVars, dragVars, socketVars>>

\* stageChanged: `await storage.getAllPipelineStages()` and
\* `await logActivity(targetId, 'stage_moved', ...)`, then the broadcastUpdate
\* calls and res.json(updatedDeal).
ReqLogStageAndAnswer(r) ==
    /\ putReqs[r].pc = "committed"
    /\ putReqs' = [putReqs EXCEPT ![r].pc = "done"]
    /\ \E ok \in BOOLEAN :
          leadActivities' = LogActivity(leadActivities, "stage_moved", ok)
    /\ eventLog' = Append(eventLog, r)
    /\ broadcastCalls' = FormPathEvents(putReqs[r].body)
    /\ wsSent' = BroadcastAll(FormPathEvents(putReqs[r].body))
    /\ httpRes' = Res(200, putReqs[r].updated)
    /\ UNCHANGED <<srvDeal, quoteItems, wsClients, connState>>
    /\ UNCHANGED <<commitLog, clientVars, dragVars, socketVars>>

RequestNext ==
    \/ \E r \in ReqIds, body \in ReqBodies : ReqRead(r, body)
    \/ \E r \in ReqIds : ReqLogSale(r)
    \/ \E r \in ReqIds : ReqCommit(r)
    \/ \E r \in ReqIds : ReqLogStageAndAnswer(r)

\* ------------------------------------------- KanbanBoard, src/unnamed/part_001
\* GET /api/deals?pipelineId=...: the deals of the active pipeline.
DealsList == IF srvDeal.pipelineId = ActivePipeline THEN <<srvDeal>> ELSE <<>>

\* The deals fetchDeals puts in the column of a stage (both filters on "all").
InStage(stage, d) ==
    IF stage.stageType = "completed"
    THEN d.stageId = stage.id \/ d.saleStatus = "won"
    ELSE IF stage.stageType = "lost"
         THEN d.stageId = stage.id \/ d.saleStatus = "lost"
         ELSE d.stageId = stage.id /\ d.saleStatus /= "won" /\ d.saleStatus /= "lost"

\* dealsData.filter(deal => ...) for the column of a stage.
StageDeals(stage, dealsData) == SelectSeq(dealsData, LAMBDA d : InStage(stage, d))

\* The comparator of the sort: completed stages last, lost stages before them,
\* the others by order.
StageCompare(a, b) ==
    IF a.stageType = "completed" /\ b.stageType /= "completed" THEN 1
    ELSE IF a.stageType /= "completed" /\ b.stageType = "completed" THEN -1
    ELSE IF a.stageType = "lost" /\ b.stageType /= "lost" THEN 1
    ELSE IF a.stageType /= "lost" /\ b.stageType = "lost" THEN -1
    ELSE a.order - b.order

\* Array.prototype.sort with that comparator: the sort is stable, so a column
\* comes after the columns that compare before it and after the equal ones
\* that stood before it.
SortRank(cols, i) ==
    1 + Cardinality({j \in 1..Len(cols) :
                        \/ StageCompare(cols[j], cols[i]) < 0
                        \/ StageCompare(cols[j], cols[i]) = 0 /\ j < i})

SortStages(cols) ==
    [k \in 1..Len(cols) |-> cols[CHOOSE i \in 1..Len(cols) : SortRank(cols, i) = k]]

NotHidden(stage) == ~stage.isHidden

\* pipelineStages.filter(stage => !stage.isHidden)
ShownStages == SelectSeq(PipelineStages, NotHidden)

\* .map(stage => ({...stage, deals: stageDeals}))
StageColumn(stage, dealsData) ==
    [id |-> stage.id, stageType |-> stage.stageType, order |-> stage.order,
     deals |-> StageDeals(stage, dealsData)]

\* The comparator reads stageType and order only, so the columns come out in
\* the order their stages sort in.
SortedStages == SortStages(ShownStages)

\* stagesWithDeals of fetchDeals: filter, map, sort.
StagesWithDeals(dealsData) ==
    [k \in 1..Len(SortedStages) |-> StageColumn(SortedStages[k], dealsData)]

InFlight == fetchReq + Cardinality(fetchResp)

\* The deals shown on the board.
BoardDeals ==
    UNION {{boardData[i].deals[j] : j \in 1..Len(boardData[i].deals)} :
           i \in 1..Len(boardData)}

\* An interval callback that never gets to fetchDeals().
PollingTickSkipsFetch ==
    /\ ~isEditDealModalOpen
    /\ UNCHANGED vars

\* setInterval(..., 5000): the tick fetches only while no modal is open.
PollingTick ==
    /\ ~isEditDealModalOpen
    /\ InFlight < MaxInflight
    /\ fetchReq' = fetchReq + 1
    /\ UNCHANGED <<boardData, fetchResp, isEditDealModalOpen, selectedDeal>>
    /\ UNCHANGED <<serverVars, fieldVars, queryVars, saveVars>>
    /\ UNCHANGED sideVars

\* The server answers one GET /api/deals with the deals as stored now.
ServerGetDeals ==
    /\ fetchReq > 0
    /\ fetchReq' = fetchReq - 1
    /\ fetchResp' = fetchResp \cup {DealsList}
    /\ UNCHANGED <<boardData, isEditDealModalOpen, selectedDeal>>
    /\ UNCHANGED <<serverVars, fieldVars, queryVars, saveVars>>
    /\ UNCHANGED sideVars

\* fetchDeals continues after `await apiRequest`: setBoardData(stagesWithDeals).
\* KanbanBoard renders again and hands the open modal a new `deal` object
\* ({...selectedDeal}), so the deal-load effect of the modal runs.
FetchDealsArrives(resp) ==
    /\ resp \in fetchResp
    /\ fetchResp' = fetchResp \ {resp}
    /\ boardData' = StagesWithDeals(resp)
    /\ IF isEditDealModalOpen
       THEN SetField(Commit(Field, TRUE, FALSE, selectedDeal.notes,
                            ApiNotes(dealDataFromApi)))
       ELSE UNCHANGED <<notes, latestNotesFromDB, showRefreshButton, isEditingNotes>>
    /\ UNCHANGED <<fetchReq, isEditDealModalOpen, selectedDeal, typingTimeout>>
    /\ UNCHANGED <<serverVars, queryVars, saveVars>>
    /\ UNCHANGED sideVars

\* A catch branch that empties the board and calls fetchDeals() again.
FetchDealsFailsRetries ==
    /\ fetchReq > 0
    /\ fetchReq' = fetchReq
    /\ boardData' = <<>>
    /\ UNCHANGED <<fetchResp, isEditDealModalOpen, selectedDeal>>
    /\ UNCHANGED <<serverVars, fieldVars, queryVars, saveVars>>
    /\ UNCHANGED sideVars

\* `await apiRequest` throws, the catch branch of fetchDeals: a toast,
\* boardData untouched.
FetchDealsFails ==
    /\ fetchReq > 0
    /\ fetchReq' = fetchReq - 1
    /\ UNCHANGED <<boardData, fetchResp, isEditDealModalOpen, selectedDeal>>
    /\ UNCHANGED <<serverVars, fieldVars, queryVars, saveVars>>
    /\ UNCHANGED sideVars

\* A click on the card of deal d: setSelectedDeal(deal), setIsEditDealModalOpen(true).
\* isEditDealModalOpen is a dep of the fetch effect, which runs again and calls
\* fetchDeals().  The modal mounts: both effects run on the first commit, and
\* its query starts without data.
OpenEditDealModal(d) ==
    /\ ~isEditDealModalOpen
    /\ d \in BoardDeals
    /\ InFlight < MaxInflight
    /\ isEditDealModalOpen' = TRUE
    /\ selectedDeal' = d
    /\ fetchReq' = fetchReq + 1
    /\ dealDataFromApi' = NoData
    /\ pollState' = NoPoll
    /\ SetField(Commit(FreshField, TRUE, TRUE, d.notes, ApiNotes(dealDataFromApi')))
    /\ typingTimeout' = FALSE
    /\ UNCHANGED <<boardData, fetchResp>>
    /\ UNCHANGED <<serverVars, saveVars>>
    /\ UNCHANGED sideVars

\* onClose of the modal as KanbanBoard passes it: the modal unmounts, and the
\* fetch effect runs again.
OnClose ==
    /\ isEditDealModalOpen' = FALSE
    /\ selectedDeal' = NoDeal
    /\ fetchReq' = fetchReq + 1
    /\ SetField(FreshField)
    /\ typingTimeout' = FALSE
    /\ pollState' = NoPoll
    /\ dealDataFromApi' = NoData
    /\ UNCHANGED <<boardData, fetchResp>>

\* The Cancel button.  (A modal closed while its mutation is pending leaves a
\* mutation that acts on no mounted field; the model closes the modal only
\* between mutations.)
CloseEditDealModal ==
    /\ isEditDealModalOpen
    /\ saveState = "idle"
    /\ InFlight < MaxInflight
    /\ OnClose
    /\ UNCHANGED saveVars
    /\ UNCHANGED serverVars
    /\ UNCHANGED sideVars

\* ------------------------------------------------------ KanbanBoard.onDragEnd
\* dest is the stage the deal was dropped on, closure the boardData array the
\* handler closed over as it reads once the handler has spliced the deal
\* lists, before the columns as they were rendered when the drag began.
NoDrag == [st |-> "idle", dest |-> 0, closure |-> <<>>, before |-> <<>>]

\* array.splice(i, 0, x), what the array holds afterwards.
InsertAt(seq, i, x) == SubSeq(seq, 1, i - 1) \o <<x>> \o SubSeq(seq, i, Len(seq))

\* The two splices of onDragEnd.  updatedBoardData is [...boardData], a new
\* array of the same stage objects, so the deal lists that are spliced are
\* those of boardData too.
MoveDeal(board, si, sidx, di, didx) ==
    LET removed == [board EXCEPT ![si].deals = Splice(@, sidx)]
    IN [removed EXCEPT ![di].deals = InsertAt(@, didx, board[si].deals[sidx])]

\* invalidateQueries / refetchQueries under ["/api/deals"]: the query of an
\* open modal is fetched again unless its fetch is running.
RefetchDealQueries ==
    pollState' = IF isEditDealModalOpen /\ pollState.st = "none"
                 THEN [NoPoll EXCEPT !.st = "req"] ELSE pollState

\* onDragEnd for a card dropped on another column of a normal stage: the
\* board is reordered at once and the PUT is sent.  (A drop on a completed or
\* lost stage opens DealOutcomeForm instead and moves nothing.)
OnDragEnd(si, sidx, di, didx) ==
    /\ ~isEditDealModalOpen
    /\ dragReq.st = "idle"
    /\ si /= di
    /\ boardData[di].stageType = "normal"
    /\ boardData' = MoveDeal(boardData, si, sidx, di, didx)
    /\ dragReq' = [st |-> "sent", dest |-> boardData[di].id,
                   closure |-> boardData', before |-> boardData]
    /\ UNCHANGED <<fetchReq, fetchResp, isEditDealModalOpen, selectedDeal>>
    /\ UNCHANGED <<serverVars, fieldVars, queryVars, saveVars, socketVars, requestVars>>

\* The server handles the PUT of the drag: {stageId, pipelineId, saleStatus}
\* has no dealId and takes the form path.
DragPutHandled ==
    /\ dragReq.st = "sent"
    /\ PutForm(Body(Undefined, dragReq.dest, "negotiation", TRUE))
    /\ dragReq' = [dragReq EXCEPT !.st = "answered"]
    /\ UNCHANGED <<clientVars, socketVars, requestVars>>

\* onDragEnd after `await apiRequest`: the queries are invalidated and
\* fetched again, a toast is shown.  boardData is left as the drop made it.
DragSucceeds ==
    /\ dragReq.st = "answered"
    /\ dragReq' = NoDrag
    /\ RefetchDealQueries
    /\ UNCHANGED <<dealDataFromApi, serverVars, boardVars, fieldVars, saveVars>>
    /\ UNCHANGED <<socketVars, requestVars>>

\* The catch branch of onDragEnd: setBoardData([...boardData]) with the array
\* the handler closed over, then fetchUpdatedData(), which invalidates the
\* queries.  KanbanBoard renders again and an open modal gets a new deal object.
DragFails ==
    /\ dragReq.st = "sent"
    /\ boardData' = dragReq.closure
    /\ dragReq' = NoDrag
    /\ RefetchDealQueries
    /\ IF isEditDealModalOpen
       THEN SetField(Commit(Field, TRUE, FALSE, selectedDeal.notes,
                            ApiNotes(dealDataFromApi)))
       ELSE UNCHANGED <<notes, latestNotesFromDB, showRefreshButton, isEditingNotes>>
    /\ UNCHANGED <<fetchReq, fetchResp, isEditDealModalOpen, selectedDeal, typingTimeout>>
    /\ UNCHANGED <<dealDataFromApi, serverVars, saveVars, socketVars, requestVars>>

DragNext ==
    \/ \E si, di \in 1..Len(boardData) :
          \E sidx \in 1..Len(boardData[si].deals) :
             \E didx \in 1..(Len(boardData[di].deals) + 1) : OnDragEnd(si, sidx, di, didx)
    \/ DragPutHandled
    \/ DragSucceeds
    \/ DragFails

\* ------------------------------------------------ EditDealModal: poll and save
\* refetchInterval 3000 of useQuery ["/api/deals", deal.id]; a fetch that is
\* running is not started again.
DealPollTick ==
    /\ isEditDealModalOpen
    /\ pollState.st = "none"
    /\ pollState' = [NoPoll EXCEPT !.st = "req"]
    /\ UNCHANGED <<dealDataFromApi, serverVars, boardVars, fieldVars, saveVars>>
    /\ UNCHANGED sideVars

\* The server answers GET /api/deals/:id with the deal as stored now.
ServerGetDeal ==
    /\ srvDeal /= NoDeal
    /\ pollState.st = "req"
    /\ pollState' = [st |-> "resp", notes |-> srvDeal.notes,
                     updatedAt |-> srvDeal.updatedAt]
    /\ UNCHANGED <<dealDataFromApi, serverVars, boardVars, fieldVars, saveVars>>
    /\ UNCHANGED sideVars

AfterRefetch == IF saveState = "refetching" THEN "closing" ELSE saveState

\* A poll result that also reloads the form: the deal-load effect with
\* dealDataFromApi among its deps.
DealPollArrivesReloadsForm ==
    /\ pollState.st = "resp"
    /\ dealDataFromApi' = [has |-> TRUE, notes |-> pollState.notes,
                           updatedAt |-> pollState.updatedAt]
    /\ pollState' = NoPoll
    /\ IF isEditDealModalOpen
       THEN SetField(Commit(Field, TRUE,
                            ApiNotes(dealDataFromApi') /= ApiNotes(dealDataFromApi),
                            selectedDeal.notes, ApiNotes(dealDataFromApi')))
       ELSE UNCHANGED <<notes, latestNotesFromDB, showRefreshButton, isEditingNotes>>
    /\ saveState' = AfterRefetch
    /\ UNCHANGED <<typingTimeout, savePayload, serverVars, boardVars>>
    /\ UNCHANGED sideVars

\* The response becomes dealDataFromApi; the notes sync effect runs when
\* dealDataFromApi?.notes changed.
DealPollArrives ==
    /\ pollState.st = "resp"
    /\ dealDataFromApi' = [has |-> TRUE, notes |-> pollState.notes,
                           updatedAt |-> pollState.updatedAt]
    /\ pollState' = NoPoll
    /\ IF isEditDealModalOpen
       THEN SetField(Commit(Field, FALSE,
                            ApiNotes(dealDataFromApi') /= ApiNotes(dealDataFromApi),
                            selectedDeal.notes, ApiNotes(dealDataFromApi')))
       ELSE UNCHANGED <<notes, latestNotesFromDB, showRefreshButton, isEditingNotes>>
    /\ saveState' = AfterRefetch
    /\ UNCHANGED <<typingTimeout, savePayload, serverVars, boardVars>>
    /\ UNCHANGED sideVars

\* The fetch fails: the data of the query stays.
DealPollFails ==
    /\ pollState.st = "req"
    /\ pollState' = NoPoll
    /\ saveState' = AfterRefetch
    /\ UNCHANGED <<dealDataFromApi, savePayload>>
    /\ UNCHANGED <<serverVars, boardVars, fieldVars>>
    /\ UNCHANGED sideVars

\* handleSave: updateDealMutation.mutate(dealUpdate); the Save button is
\* disabled while the mutation is pending.
HandleSave ==
    /\ isEditDealModalOpen
    /\ saveState = "idle"
    /\ saveState' = "sent"
    /\ savePayload' = Body(notes, selectedDeal.stageId, Undefined, TRUE)
    /\ UNCHANGED <<serverVars, boardVars, fieldVars, queryVars>>
    /\ UNCHANGED sideVars

\* The server handles the PUT of client A and answers with the updated deal.
ServerPutSave ==
    /\ saveState = "sent"
    /\ PutForm(savePayload)
    /\ saveState' = "responded"
    /\ savePayload' = [savePayload EXCEPT !.notes = srvDeal'.notes]
    /\ UNCHANGED <<boardVars, fieldVars, queryVars>>
    /\ UNCHANGED sideVars

\* The PUT fails: onError shows a toast.
SaveFails ==
    /\ saveState = "sent"
    /\ saveState' = "idle"
    /\ UNCHANGED <<savePayload, serverVars, boardVars, fieldVars, queryVars>>
    /\ UNCHANGED sideVars

\* updateDealMutation.onSuccess up to `await refetchDealData()`: the notes of
\* the response are set, the guard and its timer are cleared, the queries under
\* ["/api/deals"] are invalidated and the deal is fetched again.
OnSuccessField(respNotes) == [Field EXCEPT !.notes = OrEmpty(respNotes), !.editing = FALSE]

SaveSucceeds ==
    /\ saveState = "responded"
    /\ saveState' = "refetching"
    /\ pollState' = [NoPoll EXCEPT !.st = "req"]
    /\ LET r == OnSuccessField(savePayload.notes)
       IN SetField(Commit(r, FALSE, r.notes /= notes \/ r.editing /= isEditingNotes,
                          selectedDeal.notes, ApiNotes(dealDataFromApi)))
    /\ typingTimeout' = FALSE
    /\ UNCHANGED <<dealDataFromApi, savePayload, serverVars, boardVars>>
    /\ UNCHANGED sideVars

\* onSuccess after the refetch: onClose().
SaveCloses ==
    /\ saveState = "closing"
    /\ saveState' = "idle"
    /\ InFlight < MaxInflight
    /\ OnClose
    /\ UNCHANGED <<savePayload, serverVars>>
    /\ UNCHANGED sideVars

\* ------------------------------------------------------------ specification
Init ==
    /\ srvDeal \in [notes : {Null, "final text"}, stageId : {1},
                    pipelineId : {ActivePipeline},
                    saleStatus : {"negotiation"}, updatedAt : {0}]
    /\ leadActivities = <<>>
    /\ quoteItems = 0
    /\ httpRes = NoRes
    /\ wsClients = <<>>
    /\ connState = [c \in ConnIds |-> "none"]
    /\ wsSent = <<>>
    /\ broadcastCalls = <<>>
    /\ boardData = <<>>
    /\ fetchReq = 1
    /\ fetchResp = {}
    /\ isEditDealModalOpen = FALSE
    /\ selectedDeal = NoDeal
    /\ notes = ""
    /\ latestNotesFromDB = ""
    /\ showRefreshButton = FALSE
    /\ isEditingNotes = FALSE
    /\ typingTimeout = FALSE
    /\ dealDataFromApi = NoData
    /\ pollState = NoPoll
    /\ saveState = "idle"
    /\ savePayload = Body("", 0, Undefined, TRUE)
    /\ dragReq = NoDrag
    /\ hookWs = "connecting"
    /\ hookConn = 0
    /\ isConnected = FALSE
    /\ reconnectTimeout = FALSE
    /\ cacheOps = <<>>
    /\ ncWs = "connecting"
    /\ ncConn = 0
    /\ putReqs = [r \in ReqIds |-> NoReq]
    /\ commitLog = <<>>
    /\ eventLog = <<>>

FieldNext ==
    \/ \E t \in Texts : HandleNotesChange(t)
    \/ TypingTimeoutFires
    \/ HandleRefreshNotes
    \/ DealPollTick
    \/ ServerGetDeal
    \/ DealPollArrives
    \/ DealPollFails
    \/ HandleSave
    \/ ServerPutSave
    \/ SaveFails
    \/ SaveSucceeds
    \/ SaveCloses

BoardNext ==
    \/ PollingTick
    \/ ServerGetDeals
    \/ \E resp \in fetchResp : FetchDealsArrives(resp)
    \/ FetchDealsFails
    \/ \E d \in BoardDeals : OpenEditDealModal(d)
    \/ CloseEditDealModal

OtherClientNext ==
    \/ \E n \in Texts : OtherClientSavesNotes(n)
    \/ \E s \in StageIds : OtherClientMovesDeal(s)
    \/ \E st \in {"won", "lost"} : OtherClientSetsOutcome(st)

RoutesNext ==
    \/ \E body \in FormBodies : PutDealForm(body)
    \/ PutDealMissing
    \/ \E s \in DragStages : PutDragDrop(s)
    \/ \E role \in Roles : DeleteDeal(role)
    \/ SyncStages
    \/ \E role \in Roles : PutDealsOrder(role)
    \/ PostLeadActivity
    \/ \E role \in Roles, i \in 1..(MaxActivities + 1) : DeleteLeadActivity(role, i)
    \/ PostQuoteItem
    \/ PostDeal

WsNext ==
    \/ PostDeal
    \/ \E c \in ConnIds : WsConnect(c)
    \/ \E c \in ConnIds, u \in UserIds : WsRegister(c, u)
    \/ \E c \in ConnIds : WsClose(c)

Next ==
    \/ FieldNext \/ BoardNext \/ DragNext \/ SocketNext
    \/ OtherClientNext \/ RoutesNext \/ RequestNext \/ WsNext
    \/ \E body \in FormBodies : PutDealFormFails(body)
    \/ \E s \in DragStages : PutDragDropFails(s)

Spec == Init /\ [][Next]_vars

\* The notes field of the modal of client A while client B saves notes.
NotesNext ==
    \/ FieldNext
    \/ ServerGetDeals
    \/ \E resp \in fetchResp : FetchDealsArrives(resp)
    \/ \E d \in BoardDeals : OpenEditDealModal(d)
    \/ CloseEditDealModal
    \/ \E n \in Texts : OtherClientSavesNotes(n)

SpecNotes == Init /\ [][NotesNext]_vars

\* Bodies that carry a stage and an outcome together; the form path stores
\* both as they come.
OutcomeBodies ==
    {Body(Undefined, s, st, FALSE) : s \in {2, 3, 4}, st \in {"won", "lost"}}

\* The board of client A and its fetches while clients set stage and outcome.
BoardFetchNext ==
    \/ PollingTick
    \/ ServerGetDeals
    \/ \E resp \in fetchResp : FetchDealsArrives(resp)
    \/ FetchDealsFails
    \/ \E body \in OutcomeBodies : PutDealForm(body)

SpecBoard == Init /\ [][BoardFetchNext]_vars

\* The notes field of the modal of client A, the only client that writes.
GuardNext ==
    \/ FieldNext
    \/ ServerGetDeals
    \/ \E resp \in fetchResp : FetchDealsArrives(resp)
    \/ \E d \in BoardDeals : OpenEditDealModal(d)
    \/ CloseEditDealModal

\* setTimeout: a timer that is pending and not cleared fires.
GuardFairness == WF_vars(TypingTimeoutFires)

SpecGuard == Init /\ [][GuardNext]_vars /\ GuardFairness

\* What client A displays while client B writes the deal: no typing, no save.
DisplayNext ==
    \/ BoardNext
    \/ OtherClientNext
    \/ DealPollTick
    \/ ServerGetDeal
    \/ DealPollArrives
    \/ DealPollFails

SpecDisplay == Init /\ [][DisplayNext]_vars

\* Poll ticks keep firing (setInterval, refetchInterval) and fetches eventually
\* succeed: requests keep being answered however often others fail in between,
\* and an answer on its way is applied.
PollFairness ==
    /\ WF_vars(PollingTick)
    /\ SF_vars(ServerGetDeals)
    /\ WF_vars(\E resp \in fetchResp : FetchDealsArrives(resp))
    /\ WF_vars(DealPollTick)
    /\ SF_vars(ServerGetDeal)
    /\ WF_vars(DealPollArrives)

SpecPolling == SpecDisplay /\ PollFairness

\* Client A drags cards on a board that keeps polling while client B writes.
BoardDragNext ==
    \/ PollingTick
    \/ ServerGetDeals
    \/ \E resp \in fetchResp : FetchDealsArrives(resp)
    \/ FetchDealsFails
    \/ DragNext
    \/ OtherClientNext

SpecDrag == Init /\ [][BoardDragNext]_vars

\* The server side: connections, registrations and the events of deal writes.
ServerNext == WsNext \/ OtherClientNext

SpecServer == Init /\ [][ServerNext]_vars

\* The sockets of client A against the WebSocket server.
ClientSocketNext == SocketNext \/ WsNext

SpecSockets == Init /\ [][ClientSocketNext]_vars

\* Timers fire and the close event of a socket that failed or lost its
\* connection is dispatched.
SocketFairness ==
    /\ WF_vars(\E throws \in BOOLEAN : HookReconnectFires(throws))
    /\ WF_vars(HookOnClose)
    /\ WF_vars(NcOnClose)

SpecReconnect == SpecSockets /\ SocketFairness

\* The HTTP handlers that write deals, activities and quote items.
SpecRoutes == Init /\ [][RoutesNext]_vars

\* Two PUT /api/deals/:id requests in the handler at a time, between
\* connections that come, register and go.
ConcurrentNext == RequestNext \/ WsNext

SpecRequests == Init /\ [][ConcurrentNext]_vars

\* The handlers that call logActivity, with createLeadActivity free to fail.
LoggingNext ==
    \/ \E body \in FormBodies : PutDealForm(body)
    \/ \E s \in DragStages : PutDragDrop(s)
    \/ PostQuoteItem

SpecLogging == Init /\ [][LoggingNext]_vars

\* The same handlers with storage.updateDeal free to fail as well.
FailureNext ==
    \/ LoggingNext
    \/ \E body \in FormBodies : PutDealFormFails(body)
    \/ \E s \in DragStages : PutDragDropFails(s)

SpecFailures == Init /\ [][FailureNext]_vars

\* ------------------------------------------------------------------ claims
Keystroke == \E t \in Texts : HandleNotesChange(t)

\* latestNotesFromDatabase as the notes sync effect computes it in this state.
ServerNotes == LatestNotesFromDatabase(selectedDeal.notes, ApiNotes(dealDataFromApi))

\* C1: while isEditingNotes is true no incoming server value (a poll result, a
\* changed deal prop) changes the local notes; only a keystroke, the user's own
\* successful save or a manual refresh may change them.  (The expiry of the
\* guard is left out of the statement: it ends the guard.)
C1_GuardKeepsLocalNotes ==
    [][(isEditDealModalOpen /\ isEditDealModalOpen' /\ isEditingNotes
          /\ notes' /= notes)
        => (Keystroke \/ SaveSucceeds \/ HandleRefreshNotes \/ TypingTimeoutFires)]_vars

\* C2: client A has typed "draft text" and its guard is on, client B has saved
\* "final text".  The poll of A that brings "final text" raises
\* showRefreshButton and leaves "draft text" in the field; handleRefreshNotes
\* then puts "final text" in the field and lowers the flag.
C2_DraftThenRefresh ==
    [][/\ (/\ isEditDealModalOpen /\ isEditingNotes /\ notes = "draft text"
           /\ pollState.notes = "final text" /\ DealPollArrives)
          => (showRefreshButton' /\ notes' = "draft text")
       /\ (/\ notes = "draft text" /\ ServerNotes = "final text"
           /\ HandleRefreshNotes)
          => (notes' = "final text" /\ ~showRefreshButton')]_vars

\* The field of A shows the draft, the server holds what B saved, and the flag
\* is up.
C2_Witness ==
    /\ isEditDealModalOpen /\ isEditingNotes
    /\ notes = "draft text"
    /\ srvDeal.notes = "final text"
    /\ dealDataFromApi.has /\ dealDataFromApi.notes = "final text"
    /\ dealDataFromApi.updatedAt > 0
    /\ showRefreshButton

\* C6: handleRefreshNotes sets the local notes to latestNotesFromDB and both
\* showRefreshButton and isEditingNotes to false, and the two flags stay false
\* until the next keystroke.
C6_ManualRefresh ==
    [][/\ HandleRefreshNotes
          => (notes' = latestNotesFromDB /\ ~showRefreshButton' /\ ~isEditingNotes')
       /\ (/\ isEditDealModalOpen /\ isEditDealModalOpen'
           /\ ~showRefreshButton /\ ~isEditingNotes /\ ~Keystroke)
          => (~showRefreshButton' /\ ~isEditingNotes')]_vars

\* The state a refresh leaves: the guard is off although its timer is still
\* pending, and the field holds the server text that replaced the draft.
C6_Witness ==
    /\ isEditDealModalOpen
    /\ ~isEditingNotes /\ ~showRefreshButton
    /\ typingTimeout
    /\ notes = "final text" /\ latestNotesFromDB = "final text"

\* C7: while isEditingNotes is true, showRefreshButton is true exactly when the
\* server notes are non-empty and differ from the local notes; an empty or
\* missing server value never raises the flag.
C7_DivergenceRule ==
    (isEditDealModalOpen /\ isEditingNotes)
        => (showRefreshButton <=> (OrEmpty(ServerNotes) /= "" /\ ServerNotes /= notes))

C9_ResponseFreshness ==
    [][/\ SaveSucceeds => notes' = OrEmpty(savePayload.notes)
       /\ (/\ isEditDealModalOpen /\ saveState = "refetching"
           /\ saveState' = "refetching" /\ ~Keystroke /\ ~isEditingNotes)
          => notes' = notes]_vars

\* C10: a poll result whose notes equal those of the previous poll result
\* changes neither the local notes nor isEditingNotes nor showRefreshButton.
C10_PollIdempotence ==
    [][(/\ isEditDealModalOpen /\ dealDataFromApi.has
        /\ pollState.notes = dealDataFromApi.notes /\ DealPollArrives)
       => UNCHANGED <<notes, isEditingNotes, showRefreshButton>>]_vars

\* A second result with the same notes is about to be applied to a field that
\* holds a draft under a raised flag.
C10_Witness ==
    /\ isEditDealModalOpen /\ isEditingNotes /\ showRefreshButton
    /\ notes = "draft text"
    /\ dealDataFromApi.has /\ pollState.st = "resp"
    /\ pollState.notes = dealDataFromApi.notes
    /\ pollState.updatedAt > dealDataFromApi.updatedAt

\* C3: a response that carries an older updatedAt and arrives after a newer
\* one was applied does not take the displayed state back: neither the deals
\* of boardData nor the deal data behind the notes of the modal.
C3_StaleResponseRejected ==
    [][/\ \A d \in BoardDeals : \A e \in BoardDeals' : e.updatedAt >= d.updatedAt
       /\ (/\ isEditDealModalOpen /\ isEditDealModalOpen'
           /\ dealDataFromApi.has /\ dealDataFromApi'.has)
          => dealDataFromApi'.updatedAt >= dealDataFromApi.updatedAt]_vars

\* C4: the 'deal:created' / 'deal:updated' event a deal write passes to
\* broadcastUpdate is sent to every connection that is OPEN, registered or not.
C4_GlobalBroadcast ==
    \A i \in 1..Len(broadcastCalls) :
        broadcastCalls[i] \in {"deal:created", "deal:updated"}
            => \A c \in ConnIds :
                  connState[c] = "open"
                      => \E j \in 1..Len(wsSent) : wsSent[j] = <<c, broadcastCalls[i]>>

PutDealRequest ==
    \/ \E body \in FormBodies : PutDealForm(body)
    \/ \E s \in DragStages : PutDragDrop(s)

\* C11: every successful mutation of a deal (create, form update, drag-and-drop
\* update, delete, sync-stages) makes exactly one broadcastUpdate call.
C11_OneEventPerMutation ==
    [][(srvDeal' /= srvDeal \/ PostDeal) => Len(broadcastCalls') = 1]_vars

\* C12: one PUT /api/deals/:id request persists at most one activity record,
\* on the form path and on the drag-and-drop path.
C12_AtMostOneActivity ==
    [][PutDealRequest => Len(leadActivities') <= Len(leadActivities) + 1]_vars

\* C13: when a createLeadActivity of a deal update or of a quote item creation
\* fails (fewer records are stored than logActivity was called for), the write
\* is made all the same and the answer is the success answer with the written
\* resource.
C13_LoggingNeverFatal ==
    [][/\ \A body \in FormBodies :
             (/\ Len(leadActivities') <
                    Len(leadActivities) + Len(FormPathActivities(srvDeal, body))
              /\ PutDealForm(body))
             => (srvDeal' = UpdateDeal(srvDeal, body) /\ httpRes' = Res(200, srvDeal'))
       /\ \A s \in DragStages :
             (/\ Len(leadActivities') <
                    Len(leadActivities) + Len(DragPathActivities(srvDeal, s))
              /\ PutDragDrop(s))
             => (srvDeal' = UpdateDealDrag(srvDeal, s) /\ httpRes' = Res(200, srvDeal'))
       /\ (PostQuoteItem /\ leadActivities' = leadActivities)
             => (quoteItems' = quoteItems + 1 /\ httpRes'.status = 201)]_vars

\* The first write of the deal moved it to the completed stage as won and was
\* answered with 200 and the deal, and the table of activities is empty: both
\* createLeadActivity calls of the request failed.
C13_Witness ==
    /\ httpRes.status = 200
    /\ httpRes.deal = srvDeal
    /\ srvDeal.updatedAt = 1
    /\ srvDeal.saleStatus = "won"
    /\ srvDeal.stageId = 2
    /\ leadActivities = <<>>

\* C14: no request of a caller who is not authenticated as an admin removes an
\* activity record or changes one.
C14_AdminOnlyRemoval ==
    [][\A role \in Roles \ {"admin"} : \A i \in 1..(MaxActivities + 1) :
          DeleteLeadActivity(role, i)
              => /\ Len(leadActivities') >= Len(leadActivities)
                 /\ SubSeq(leadActivities', 1, Len(leadActivities)) = leadActivities]_vars

\* ------------------------------------------------------ claims on the drag
\* C15: when the request of a move fails, boardData is restored to exactly the
\* columns it held before the drag.
C15_RollbackRestoresBoard ==
    [][DragFails => boardData' = dragReq.before]_vars

\* ------------------------------------------------ claims on the client sockets
\* C16: a socket of the client that lost its connection or failed to connect
\* gets a new connection attempt, for useWebSocket (unless disconnect() is
\* called) and for NotificationCenter.
C16_ReconnectsAfterLoss ==
    /\ (hookWs \in {"errored", "closed"})
          ~> (hookWs \in {"connecting", "open", "disconnecting", "disconnected"})
    /\ (ncWs \in {"errored", "closed"}) ~> (ncWs \in {"connecting", "open"})

\* Connection c is on a list of the registry.
Registered(c) == IndexOf(RegisteredConns(wsClients), c) /= 0

\* C17: a client socket that opened ends up in wsClients for as long as it
\* stays open: the register message is sent on every open.
C17_RegistersOnOpen ==
    /\ (hookWs = "open") ~> (hookWs /= "open" \/ Registered(hookConn))
    /\ (ncWs = "open") ~> (ncWs /= "open" \/ Registered(ncConn))

\* The messages C18 is about: no JSON, a type the switch does not know, or no
\* data.
Ignorable(msg) ==
    \/ ~msg.json
    \/ msg.type \notin {"deal:updated", "deal:created", "deal:deleted", "lead:updated"}
    \/ msg.data = "none"

\* C18: useWebSocket ignores such a message: no query is removed or
\* invalidated, isConnected and the socket stay as they are.
C18_UnknownMessagesIgnored ==
    [][\A msg \in Messages :
          (Ignorable(msg) /\ HookOnMessage(msg))
              => (cacheOps' = <<>> /\ isConnected' = isConnected /\ hookWs' = "open")]_vars

\* -------------------------------------------------- claims on the broadcasts
\* No connection on a list of the registry is OPEN (the registry may be empty).
NoOpenObserver ==
    \A i \in 1..Len(RegisteredConns(wsClients)) :
        connState[RegisteredConns(wsClients)[i]] /= "open"

\* C19: a step that calls broadcastUpdate (and createNotification, for a
\* created deal) while no registered connection is OPEN sends nothing, leaves
\* the registry as it is and answers its request with success.
C19_NoObserverNoEffect ==
    [][(NoOpenObserver /\ broadcastCalls' /= <<>>)
         => (wsSent' = <<>> /\ wsClients' = wsClients /\ httpRes'.status \in {200, 201})]_vars

\* A deal was created while the registry held only connections that had
\* closed: nothing was sent and the request was answered.
C19_Witness ==
    /\ wsClients /= <<>>
    /\ NoOpenObserver
    /\ broadcastCalls = <<"deal:created">>
    /\ wsSent = <<>>
    /\ httpRes.status = 201

\* Position of request r in a log, 0 when absent.
LogPos(log, r) == IndexOf(log, r)

\* C20: the 'deal:updated' calls of concurrent PUT requests on the deal are
\* made in the order in which their storage.updateDeal writes were committed.
C20_EventsInCommitOrder ==
    \A i, j \in 1..Len(eventLog) :
        i < j => LogPos(commitLog, eventLog[i]) < LogPos(commitLog, eventLog[j])


\* ------------------------------------------------- claims on the activity log
\* C21: a successful request that changes the stage or the pipeline of the
\* deal, or sets its saleStatus to 'won' or 'lost', calls logActivity at least
\* once, so that a record is stored when the write of the record succeeds.
C21_MutationIsLogged ==
    [][(/\ srvDeal /= NoDeal
        /\ srvDeal' /= NoDeal
        /\ httpRes'.status = 200
        /\ \/ srvDeal'.stageId /= srvDeal.stageId
           \/ srvDeal'.pipelineId /= srvDeal.pipelineId
           \/ srvDeal'.saleStatus /= srvDeal.saleStatus
              /\ srvDeal'.saleStatus \in {"won", "lost"})
         => /\ \A body \in FormBodies :
                  PutDealForm(body) => FormPathActivities(srvDeal, body) /= <<>>
            /\ \A s \in DragStages :
                  PutDragDrop(s) => DragPathActivities(srvDeal, s) /= <<>>
            /\ ~SyncStages]_vars

\* ---------------------------------------------- claims on the idle timeout
\* C22: when the idle timer fires while the guard is on and the text of the
\* field differs from the stored notes, the guard goes off and the text of the
\* field stays what the user typed.
C22_TimeoutKeepsDraft ==
    [][(isEditingNotes /\ notes /= ServerNotes /\ TypingTimeoutFires)
         => (~isEditingNotes' /\ notes' = notes)]_vars

\* C23: a keystroke leaves the guard on with a timer pending; the guard is
\* never on without a pending timer; and a guard that is on goes off again
\* (by the timer, a save or a manual refresh).
C23_GuardExpires ==
    /\ [][Keystroke => (isEditingNotes' /\ typingTimeout')]_vars
    /\ [](isEditingNotes => typingTimeout)
    /\ isEditingNotes ~> ~isEditingNotes

\* The user has typed a draft: the guard is on and the timer is pending.
C23_Witness ==
    /\ isEditDealModalOpen
    /\ notes = "draft text"
    /\ isEditingNotes
    /\ typingTimeout

\* ------------------------------------------------ claims on the board's fetches
\* C24: a step that issues a GET /api/deals of KanbanBoard leaves no edit-deal
\* modal open: no fetch is issued while the modal is open, the moment it opens
\* included.
C24_NoFetchWhileModalOpen ==
    [][fetchReq' > fetchReq => ~isEditDealModalOpen']_vars

\* C25: a GET /api/deals of KanbanBoard that fails leaves boardData as it was
\* and issues no request in its place: the failed request is gone and the
\* responses on their way are the ones there were.
C25_FailedFetchLeavesBoard ==
    [][FetchDealsFails
         => (boardData' = boardData /\ fetchReq' = fetchReq - 1 /\ fetchResp' = fetchResp)]_vars

\* The fetch of the mount has failed: the board is as empty as it was and no
\* request is on its way.
C25_Witness ==
    /\ boardData = <<>>
    /\ fetchReq = 0
    /\ fetchResp = {}

\* -------------------------------------------------- claims on the registry
\* C26: a connection whose close event the server has handled is on no list
\* of the registry, and no user id of the registry has an empty list.
C26_ClosedConnsUnregistered ==
    /\ \A c \in ConnIds :
          connState[c] = "closed" => IndexOf(RegisteredConns(wsClients), c) = 0
    /\ \A i \in 1..Len(wsClients) : wsClients[i].conns /= <<>>

\* ------------------------------------------------- claims on disconnect()
\* C27: once disconnect() of useWebSocket has run and the close event of the
\* socket it closed is still to come, no step schedules the reconnection
\* timer, opens a new socket or sets isConnected.
C27_DisconnectIsFinal ==
    [][hookWs = "disconnecting"
         => (~reconnectTimeout' /\ ~isConnected' /\ hookWs' /= "connecting")]_vars

\* ------------------------------------------- claims on failed deal updates
\* C28: a request that is answered with an error stores no activity record.
C28_NoActivityWithoutCommit ==
    [][httpRes'.status >= 400 => leadActivities' = leadActivities]_vars

\* ------------------------------------------------ claims on the board's columns
\* C29: no deal is in the deal lists of two columns of boardData.
C29_BoardPartition ==
    \A i, j \in 1..Len(boardData) :
        i /= j => \A k \in 1..Len(boardData[i].deals) :
                     IndexOf(boardData[j].deals, boardData[i].deals[k]) = 0

\* ------------------------------------------- claims on targeted delivery
\* C30: the createNotification calls of a step (one for each user) send
\* 'notification' only to connections that are OPEN and on a list of the
\* registry, and to a connection at most once for each user id it is
\* registered under.
C30_TargetedDelivery ==
    [][\A c \in ConnIds :
          LET n == Cardinality({k \in 1..Len(wsSent') : wsSent'[k] = <<c, "notification">>})
          IN /\ n > 0 => (connState[c] = "open" /\ Registered(c))
             /\ n <= Cardinality({i \in 1..Len(wsClients) :
                                     IndexOf(wsClients[i].conns, c) /= 0})]_vars

====
